---- MODULE Spec2Model ----
(***************************************************************************)
(* Scrape-job supervisor of dashboard/app.py ("Scraper Controls" tab):     *)
(* the "Start Scraping" handler spawns the scraper, reads its combined     *)
(* output line by line, folds every line into the four counters and the    *)
(* live widgets, and turns the exit code into the final message.           *)
(*                                                                         *)
(* A line is a sequence of tokens (strings); the newline that ends it is   *)
(* the token "\n".  `"X" in line` is token membership, a regular           *)
(* expression is a pattern over adjacent tokens, int() is the inverse of   *)
(* decimal formatting.                                                     *)
(*                                                                         *)
(* The "Found" block of the source (lines 461-467) opens a try: that has   *)
(* no except clause; it is modelled like the five blocks before it, with   *)
(* the handler "except: pass".                                             *)
(***************************************************************************)
EXTENDS Integers, Sequences, FiniteSets, TLC

VARIABLES
    pc,               \* position of the handler: Idle, Starting, Running, Waiting, Succeeded, Failed
    form,             \* the values of the form's widgets when the button was pressed
    cmd,              \* the command built from the form
    popen_args,       \* cmd_with_unbuffered, the argument vector handed to Popen
    child,            \* the scraper process: none, running, closed (stdout closed), exited
    exit_status,      \* <<>> while the child lives, <<code>> once it has exited
    pipe,             \* bytes written by the child and not yet read
    stream,           \* every byte the child has written so far (history)
    clock,            \* time.time()
    start_time,
    returncode,       \* process.returncode: <<>> is None
    output_lines,
    posts_count,
    comments_count,
    images_count,
    videos_count,
    progress_bar,     \* <<num, den>>, the ratio last handed to progress_bar.progress
    posts_metric,
    comments_metric,
    images_metric,
    videos_metric,
    status_container,
    output_container, \* the lines last shown by output_container.code
    st_code,          \* the lines shown by st.code: the tail on a non-zero exit, the
                      \* traceback in the except clause
    st_error,         \* the message last shown by st.error
    snapshots,        \* number of per-line widget updates published so far
    history,          \* the counters at each of these updates, in order of publication
    jobs,             \* two handlers running at once in two sessions, each with its locals
    outcomes          \* number of final messages published so far

childVars == <<child, exit_status, pipe, stream>>
countVars == <<output_lines, posts_count, comments_count, images_count, videos_count>>
widgetVars == <<progress_bar, posts_metric, comments_metric, images_metric, videos_metric,
                status_container, output_container>>
finalVars == <<st_code, st_error, outcomes, returncode>>
handlerVars ==
    <<pc, form, cmd, popen_args, childVars, clock, start_time, countVars, widgetVars,
      finalVars, snapshots, history>>
vars == <<handlerVars, jobs>>

----------------------------------------------------------------------------
(* Bounds of the model *)

MaxLines == 2       \* lines the child writes in Spec
MaxBulk == 40       \* lines the child writes in SpecBulk
MaxBytes == 4       \* bytes the child writes in SpecBytes
MaxChunk == 2       \* bytes of one write in SpecBytes
MaxNum == 100       \* largest number that appears in a line
PipeCap == 1        \* lines the pipe holds before the child blocks
MaxClock == 1       \* seconds the clock may advance
MaxJobLines == 2    \* lines each of the two children writes in SpecJobs
MaxFairLines == 6   \* lines the child writes in SpecFair
MaxPostsLines == 4  \* lines the child writes in SpecPosts

(* Program constants *)

DisplayTail == 15
FailureTail == 30

NL == "\n"
BadByte == "\\xff"
Replacement == "U+FFFD"

----------------------------------------------------------------------------
(* Text helpers *)

Numerals == {ToString(n) : n \in 0..MaxNum}

\* \d+ : the token is a decimal numeral
IsDigits(t) == t \in Numerals

\* int(s): the number a decimal numeral denotes
Value == [t \in Numerals |-> CHOOSE n \in 0..MaxNum : ToString(n) = t]
int(t) == Value[t]

\* "X" in line
In(x, line) == \E i \in 1..Len(line) : line[i] = x

Min(S) == CHOOSE x \in S : \A y \in S : x <= y

\* raw_line.decode('utf-8', errors='replace')
decode(raw) == [i \in 1..Len(raw) |-> IF raw[i] = BadByte THEN Replacement ELSE raw[i]]

\* Mutant of Last: the slice is [:k]
LastHead(s, k) == IF Len(s) <= k THEN s ELSE SubSeq(s, 1, k)

\* Mutant of Last: the slice is forgotten
LastAll(s, k) == s

\* output_lines[-k:]
Last(s, k) == IF Len(s) <= k THEN s ELSE SubSeq(s, Len(s) - k + 1, Len(s))

----------------------------------------------------------------------------
(* The widgets' contents *)

Plain(n) == [fmt |-> "plain", n |-> n, total |-> 0]          \* str(n)
OutOf(n, t) == [fmt |-> "of", n |-> n, total |-> t]          \* f"{n}/{t}"
Approx(n) == [fmt |-> "approx", n |-> n, total |-> 0]        \* f"~{n}"

NoStatus == [kind |-> "none", elapsed |-> 0, rate |-> <<0, 1>>, n |-> 0]
BatchStatus(b) == [kind |-> "batch", elapsed |-> 0, rate |-> <<0, 1>>, n |-> b]
RunningStatus(e, r) == [kind |-> "running", elapsed |-> e, rate |-> r, n |-> 0]
SuccessStatus(e) == [kind |-> "success", elapsed |-> e, rate |-> <<0, 1>>, n |-> 0]
ErrorStatus(c) == [kind |-> "error", elapsed |-> 0, rate |-> <<0, 1>>, n |-> c]

\* Mutant of Ratio: the quotient is not clamped
RatioUnclamped(d, t) == <<d, t>>

\* min(posts_count / total, 1.0), as a fraction
Ratio(d, t) == IF d >= t THEN <<1, 1>> ELSE <<d, t>>

\* the locals and widgets when the loop is entered
InitialLocals ==
    [posts_count |-> 0, comments_count |-> 0, images_count |-> 0, videos_count |-> 0,
     progress_bar |-> <<0, 1>>, posts_metric |-> Plain(0), comments_metric |-> Plain(0),
     images_metric |-> Plain(0), videos_metric |-> Plain(0), status_container |-> NoStatus]

\* Mutant of Locals: the counters are initialised inside the loop
LocalsReset ==
    [posts_count |-> 0, comments_count |-> 0, images_count |-> 0, videos_count |-> 0,
     progress_bar |-> progress_bar, posts_metric |-> posts_metric,
     comments_metric |-> comments_metric, images_metric |-> images_metric,
     videos_metric |-> videos_metric, status_container |-> status_container]

\* The loop's locals and the widgets the blocks write, as one record
Locals ==
    [posts_count |-> posts_count, comments_count |-> comments_count,
     images_count |-> images_count, videos_count |-> videos_count,
     progress_bar |-> progress_bar, posts_metric |-> posts_metric,
     comments_metric |-> comments_metric, images_metric |-> images_metric,
     videos_metric |-> videos_metric, status_container |-> status_container]

----------------------------------------------------------------------------
(* The pattern blocks of the read loop, in source order.  Each is its own *)
(* `if`: a line is offered to every block, none is skipped because an      *)
(* earlier one matched.                                                    *)

\* re.search(r'(\d+)\s*/\s*(\d+)', line): positions where the pattern matches
PairAt(line) ==
    {i \in 1..(Len(line) - 2) :
        IsDigits(line[i]) /\ line[i + 1] = "/" /\ IsDigits(line[i + 2])}

\* re.search(key + r'\s*(\d+)', line) and re.search(r'Saved (\d+)', line)
CountAt(key, line) ==
    {i \in 1..(Len(line) - 1) : line[i] = key /\ IsDigits(line[i + 1])}

\* re.search(r'Found (\d+) posts', line)
FoundAt(line) ==
    {i \in 1..(Len(line) - 2) :
        line[i] = "Found" /\ IsDigits(line[i + 1]) /\ line[i + 2] = "posts"}

\* Mutant of ProgressBlock: the count is added to posts_count
ProgressAccumulates(line, s) ==
    IF In("Progress:", line) /\ In("/", line) /\ PairAt(line) # {}
    THEN LET i == Min(PairAt(line))
             done == s.posts_count + int(line[i])
             total == int(line[i + 2])
         IN  IF total = 0
             THEN [s EXCEPT !.posts_count = done]
             ELSE [s EXCEPT !.posts_count = done,
                            !.progress_bar = Ratio(done, total),
                            !.posts_metric = OutOf(done, total)]
    ELSE s

\* Mutant of ProgressBlock: the total is tested before anything is assigned
ProgressChecksTotal(line, s) ==
    IF In("Progress:", line) /\ In("/", line) /\ PairAt(line) # {}
    THEN LET i == Min(PairAt(line))
             done == int(line[i])
             total == int(line[i + 2])
         IN  IF total = 0
             THEN s
             ELSE [s EXCEPT !.posts_count = done,
                            !.progress_bar = Ratio(done, total),
                            !.posts_metric = OutOf(done, total)]
    ELSE s

ProgressBlock(line, s) ==
    IF In("Progress:", line) /\ In("/", line) /\ PairAt(line) # {}
    THEN LET i == Min(PairAt(line))
             done == int(line[i])
             total == int(line[i + 2])
         IN  IF total = 0
             THEN [s EXCEPT !.posts_count = done]      \* ZeroDivisionError, swallowed
             ELSE [s EXCEPT !.posts_count = done,
                            !.progress_bar = Ratio(done, total),
                            !.posts_metric = OutOf(done, total)]
    ELSE s

\* Mutant of SavedBlock: the count replaces posts_count
SavedOverwrites(line, s) ==
    IF In("Saved", line) /\ In("posts", line) /\ CountAt("Saved", line) # {}
    THEN LET n == int(line[Min(CountAt("Saved", line)) + 1])
         IN  [s EXCEPT !.posts_count = n, !.posts_metric = Plain(n)]
    ELSE s

\* Mutant of SavedBlock: the count is taken off posts_count
SavedSubtracts(line, s) ==
    IF In("Saved", line) /\ In("posts", line) /\ CountAt("Saved", line) # {}
    THEN LET n == s.posts_count - int(line[Min(CountAt("Saved", line)) + 1])
         IN  [s EXCEPT !.posts_count = n, !.posts_metric = Plain(n)]
    ELSE s

SavedBlock(line, s) ==
    IF In("Saved", line) /\ In("posts", line) /\ CountAt("Saved", line) # {}
    THEN LET n == s.posts_count + int(line[Min(CountAt("Saved", line)) + 1])
         IN  [s EXCEPT !.posts_count = n, !.posts_metric = Plain(n)]
    ELSE s

\* Mutant of CommentsBlock: a payload that is not a number resets the count
CommentsResetsOnFailure(line, s) ==
    IF In("Comments:", line)
    THEN IF CountAt("Comments:", line) # {}
         THEN LET n == int(line[Min(CountAt("Comments:", line)) + 1])
              IN  [s EXCEPT !.comments_count = n, !.comments_metric = Plain(n)]
         ELSE [s EXCEPT !.comments_count = 0, !.comments_metric = Plain(0)]
    ELSE s

CommentsBlock(line, s) ==
    IF In("Comments:", line) /\ CountAt("Comments:", line) # {}
    THEN LET n == int(line[Min(CountAt("Comments:", line)) + 1])
         IN  [s EXCEPT !.comments_count = n, !.comments_metric = Plain(n)]
    ELSE s

\* Mutant of FetchingBlock: no increment once an exact total is on display
FetchingUnlessTotal(line, s) ==
    IF In("Fetching comments for:", line)
          /\ ~(s.comments_metric.fmt = "plain" /\ s.comments_count > 0)
    THEN [s EXCEPT !.comments_count = @ + 1,
                   !.comments_metric = Approx(s.comments_count + 1)]
    ELSE s

FetchingBlock(line, s) ==
    IF In("Fetching comments for:", line)
    THEN [s EXCEPT !.comments_count = @ + 1,
                   !.comments_metric = Approx(s.comments_count + 1)]
    ELSE s

ImagesBlock(line, s) ==
    IF In("Images:", line) /\ CountAt("Images:", line) # {}
    THEN LET n == int(line[Min(CountAt("Images:", line)) + 1])
         IN  [s EXCEPT !.images_count = n, !.images_metric = Plain(n)]
    ELSE s

\* Mutant of VideosBlock: pasted from the Images block, it writes images_count
VideosWritesImages(line, s) ==
    IF In("Videos:", line) /\ CountAt("Videos:", line) # {}
    THEN LET n == int(line[Min(CountAt("Videos:", line)) + 1])
         IN  [s EXCEPT !.images_count = n, !.videos_metric = Plain(n)]
    ELSE s

VideosBlock(line, s) ==
    IF In("Videos:", line) /\ CountAt("Videos:", line) # {}
    THEN LET n == int(line[Min(CountAt("Videos:", line)) + 1])
         IN  [s EXCEPT !.videos_count = n, !.videos_metric = Plain(n)]
    ELSE s

\* Mutant of FoundBlock: the batch is added to posts_count
FoundCountsPosts(line, s) ==
    IF In("Found", line) /\ In("posts", line) /\ FoundAt(line) # {}
    THEN LET n == int(line[Min(FoundAt(line)) + 1])
         IN  [s EXCEPT !.posts_count = @ + n, !.status_container = BatchStatus(n)]
    ELSE s

FoundBlock(line, s) ==
    IF In("Found", line) /\ In("posts", line) /\ FoundAt(line) # {}
    THEN [s EXCEPT !.status_container = BatchStatus(int(line[Min(FoundAt(line)) + 1]))]
    ELSE s

\* Mutant of Rate: the division is not guarded
RateUnguarded(posts, elapsed) == <<posts, elapsed>>

\* rate = posts_count / elapsed if elapsed > 0 else 0, as a fraction
Rate(posts, elapsed) == IF elapsed > 0 THEN <<posts, elapsed>> ELSE <<0, 1>>

\* Mutant of UpdateStatus: the posts are extrapolated with the time spent
UpdateStatusExtrapolates(s, elapsed) ==
    [s EXCEPT !.posts_count = @ + elapsed,
              !.status_container = RunningStatus(elapsed, Rate(s.posts_count, elapsed))]

\* "Update status"
UpdateStatus(s, elapsed) ==
    [s EXCEPT !.status_container = RunningStatus(elapsed, Rate(s.posts_count, elapsed))]

\* Mutant of ParseLine: the blocks chained with elif, the first trigger wins
ParseLineFirstMatch(line, s, elapsed) ==
    UpdateStatus(
        IF In("Progress:", line) /\ In("/", line) THEN ProgressBlock(line, s)
        ELSE IF In("Saved", line) /\ In("posts", line) THEN SavedBlock(line, s)
        ELSE IF In("Comments:", line) THEN CommentsBlock(line, s)
        ELSE IF In("Fetching comments for:", line) THEN FetchingBlock(line, s)
        ELSE IF In("Images:", line) THEN ImagesBlock(line, s)
        ELSE IF In("Videos:", line) THEN VideosBlock(line, s)
        ELSE FoundBlock(line, s),
        elapsed)

\* The body of the loop below output_lines.append(line), for one line
ParseLine(line, s, elapsed) ==
    UpdateStatus(
        FoundBlock(line,
            VideosBlock(line,
                ImagesBlock(line,
                    FetchingBlock(line,
                        CommentsBlock(line,
                            SavedBlock(line,
                                ProgressBlock(line, s))))))),
        elapsed)

----------------------------------------------------------------------------
(* The handler *)

\* the widgets' values before anything is entered
DefaultForm ==
    [new_sub |-> "", is_user |-> FALSE, limit |-> 100, mode |-> "full",
     no_media |-> FALSE, no_comments |-> FALSE]

\* the four counters of a record of locals
Counters(s) ==
    [posts_count |-> s.posts_count, comments_count |-> s.comments_count,
     images_count |-> s.images_count, videos_count |-> s.videos_count]

Empty == [fmt |-> "empty", n |-> 0, total |-> 0]

\* the two sessions whose handlers run at once
JobIds == {1, 2}

\* a handler whose button has been pressed: nothing spawned, nothing read
InitialJob ==
    [pc |-> "Starting", child |-> "none", exit_status |-> <<>>, pipe |-> <<>>,
     stream |-> <<>>, output_lines |-> <<>>, locals |-> InitialLocals,
     returncode |-> <<>>, st_code |-> <<>>, st_error |-> "none", outcomes |-> 0]

Init ==
    /\ pc = "Idle"
    /\ form = DefaultForm
    /\ cmd = <<>>
    /\ popen_args = <<>>
    /\ child = "none"
    /\ exit_status = <<>>
    /\ pipe = <<>>
    /\ stream = <<>>
    /\ clock = 0
    /\ start_time = 0
    /\ returncode = <<>>
    /\ output_lines = <<>>
    /\ posts_count = 0
    /\ comments_count = 0
    /\ images_count = 0
    /\ videos_count = 0
    /\ progress_bar = <<0, 1>>
    /\ posts_metric = Empty
    /\ comments_metric = Empty
    /\ images_metric = Empty
    /\ videos_metric = Empty
    /\ status_container = NoStatus
    /\ output_container = <<>>
    /\ st_code = <<>>
    /\ st_error = "none"
    /\ snapshots = 0
    /\ history = <<>>
    /\ jobs = [j \in JobIds |-> InitialJob]
    /\ outcomes = 0

\* Mutant of BuildCmd: the tests of is_user and no_media are exchanged
BuildCmdSwapsFlags(new_sub, is_user, limit, mode, no_media, no_comments) ==
    <<"python", "main.py", new_sub, "--mode", mode, "--limit", ToString(limit)>>
        \o (IF no_media THEN <<"--user">> ELSE <<>>)
        \o (IF is_user THEN <<"--no-media">> ELSE <<>>)
        \o (IF no_comments THEN <<"--no-comments">> ELSE <<>>)

\* cmd = ["python", "main.py", new_sub, "--mode", mode, "--limit", str(limit)] + flags
BuildCmd(new_sub, is_user, limit, mode, no_media, no_comments) ==
    <<"python", "main.py", new_sub, "--mode", mode, "--limit", ToString(limit)>>
        \o (IF is_user THEN <<"--user">> ELSE <<>>)
        \o (IF no_media THEN <<"--no-media">> ELSE <<>>)
        \o (IF no_comments THEN <<"--no-comments">> ELSE <<>>)

\* Mutant of StartScraping: the name is not checked
StartScrapingUnchecked(new_sub, is_user, limit, mode, no_media, no_comments) ==
    /\ pc = "Idle"
    /\ form' = [new_sub |-> new_sub, is_user |-> is_user, limit |-> limit, mode |-> mode,
                no_media |-> no_media, no_comments |-> no_comments]
    /\ cmd' = BuildCmd(new_sub, is_user, limit, mode, no_media, no_comments)
    /\ progress_bar' = <<0, 1>>
    /\ posts_metric' = Plain(0)
    /\ comments_metric' = Plain(0)
    /\ images_metric' = Plain(0)
    /\ videos_metric' = Plain(0)
    /\ pc' = "Starting"
    /\ st_error' = "none"
    /\ UNCHANGED <<status_container, output_container>>
    /\ UNCHANGED <<popen_args, childVars, clock, start_time, countVars,
                   st_code, outcomes, returncode, snapshots, history, jobs>>

\* if st.button("Start Scraping"): up to the try
StartScraping(new_sub, is_user, limit, mode, no_media, no_comments) ==
    /\ pc = "Idle"
    /\ form' = [new_sub |-> new_sub, is_user |-> is_user, limit |-> limit, mode |-> mode,
                no_media |-> no_media, no_comments |-> no_comments]
    /\ IF new_sub = ""
       THEN /\ st_error' = "Please enter a subreddit/user name!"
            /\ UNCHANGED <<pc, cmd, widgetVars>>
       ELSE /\ cmd' = BuildCmd(new_sub, is_user, limit, mode, no_media, no_comments)
            /\ progress_bar' = <<0, 1>>
            /\ posts_metric' = Plain(0)
            /\ comments_metric' = Plain(0)
            /\ images_metric' = Plain(0)
            /\ videos_metric' = Plain(0)
            /\ pc' = "Starting"
            /\ st_error' = "none"     \* the rerun redraws the page
            /\ UNCHANGED <<status_container, output_container>>
    /\ UNCHANGED <<popen_args, childVars, clock, start_time, countVars,
                   st_code, outcomes, returncode, snapshots, history, jobs>>

\* traceback.format_exc(), shown by st.code in the except clause
Traceback == <<"Traceback (most recent call last):">>

\* Mutant of Except: the error is reported and the handler carries on
ExceptContinues ==
    /\ st_error' = "Error running scraper"
    /\ st_code' = <<Traceback>>
    /\ outcomes' = outcomes + 1
    /\ pc' = pc

\* Mutant of Except: the final message shows the last lines of the output
ExceptShowsTail ==
    /\ st_error' = "Error running scraper"
    /\ st_code' = Last(output_lines, FailureTail)
    /\ outcomes' = outcomes + 1
    /\ pc' = "Failed"

\* except Exception as e: st.error(...); st.code(traceback.format_exc())
Except ==
    /\ st_error' = "Error running scraper"
    /\ st_code' = <<Traceback>>
    /\ outcomes' = outcomes + 1
    /\ pc' = "Failed"

\* Mutant of Spawn: a failed job is spawned again
SpawnRetry ==
    /\ pc \in {"Starting", "Failed"}
    /\ popen_args' = <<"python", "-u">> \o Tail(cmd)
    /\ child' = "running"
    /\ output_lines' = <<>>
    /\ start_time' = clock
    /\ posts_count' = 0
    /\ comments_count' = 0
    /\ images_count' = 0
    /\ videos_count' = 0
    /\ pc' = "Running"
    /\ UNCHANGED <<form, cmd, exit_status, pipe, stream, clock, widgetVars, finalVars, snapshots, history, jobs>>

\* subprocess.Popen(...) returns; the locals are initialised
Spawn ==
    /\ pc = "Starting"
    /\ popen_args' = <<"python", "-u">> \o Tail(cmd)
    /\ child' = "running"
    /\ output_lines' = <<>>
    /\ start_time' = clock
    /\ posts_count' = 0
    /\ comments_count' = 0
    /\ images_count' = 0
    /\ videos_count' = 0
    /\ pc' = "Running"
    /\ UNCHANGED <<form, cmd, exit_status, pipe, stream, clock, widgetVars, finalVars, snapshots, history, jobs>>

\* Mutant of SpawnFails: the exception is lost and the loop is entered
SpawnFailsIntoLoop ==
    /\ pc = "Starting"
    /\ popen_args' = <<"python", "-u">> \o Tail(cmd)
    /\ pc' = "Running"
    /\ UNCHANGED <<form, cmd, childVars, clock, start_time, countVars, widgetVars,
                   finalVars, snapshots, history, jobs>>

\* subprocess.Popen(...) raises
SpawnFails ==
    /\ pc = "Starting"
    /\ popen_args' = <<"python", "-u">> \o Tail(cmd)
    /\ Except
    /\ UNCHANGED <<form, cmd, childVars, clock, start_time, countVars, widgetVars,
                   returncode, snapshots, history, jobs>>

\* Mutant of FirstLine: read() for readline(), whatever has arrived is one line
FirstLineWholeChunk(bytes) == bytes

\* process.stdout.readline(): the bytes up to and including the first newline,
\* or, at end of file, whatever is left
FirstLine(bytes) ==
    IF In(NL, bytes)
    THEN SubSeq(bytes, 1, Min({i \in 1..Len(bytes) : bytes[i] = NL}))
    ELSE bytes

\* Mutant of CanRead: the end of the stream is never reported to the reader
CanReadNeedsNewline == In(NL, pipe)

\* readline returns once a newline has arrived or the stream has ended
CanRead == In(NL, pipe) \/ child # "running"

\* Mutant of ReadLine: the Progress block has no except clause, the division by
\* a total of 0 leaves the loop
ReadLineZeroDivision ==
    /\ pc = "Running"
    /\ CanRead
    /\ pipe # <<>>
    /\ LET raw_line == FirstLine(pipe)
           line == decode(raw_line)
           s == ParseLine(line, Locals, clock - start_time)
       IN  /\ pipe' = SubSeq(pipe, Len(raw_line) + 1, Len(pipe))
           /\ output_lines' = Append(output_lines, line)
           /\ IF /\ In("Progress:", line) /\ In("/", line) /\ PairAt(line) # {}
                 /\ int(line[Min(PairAt(line)) + 2]) = 0
              THEN /\ Except
                   /\ UNCHANGED <<posts_count, comments_count, images_count, videos_count,
                                  widgetVars, returncode, snapshots, history>>
              ELSE /\ posts_count' = s.posts_count
                   /\ comments_count' = s.comments_count
                   /\ images_count' = s.images_count
                   /\ videos_count' = s.videos_count
                   /\ progress_bar' = s.progress_bar
                   /\ posts_metric' = s.posts_metric
                   /\ comments_metric' = s.comments_metric
                   /\ images_metric' = s.images_metric
                   /\ videos_metric' = s.videos_metric
                   /\ status_container' = s.status_container
                   /\ output_container' = Last(Append(output_lines, line), DisplayTail)
                   /\ snapshots' = snapshots + 1
                   /\ history' = Append(history, Counters(s))
                   /\ UNCHANGED <<pc, finalVars>>
    /\ UNCHANGED <<form, cmd, popen_args, child, exit_status, stream, clock, start_time, jobs>>

\* One iteration of the for loop
ReadLine ==
    /\ pc = "Running"
    /\ CanRead
    /\ pipe # <<>>
    /\ LET raw_line == FirstLine(pipe)
           line == decode(raw_line)
           s == ParseLine(line, Locals, clock - start_time)
       IN  /\ pipe' = SubSeq(pipe, Len(raw_line) + 1, Len(pipe))
           /\ output_lines' = Append(output_lines, line)
           /\ posts_count' = s.posts_count
           /\ comments_count' = s.comments_count
           /\ images_count' = s.images_count
           /\ videos_count' = s.videos_count
           /\ progress_bar' = s.progress_bar
           /\ posts_metric' = s.posts_metric
           /\ comments_metric' = s.comments_metric
           /\ images_metric' = s.images_metric
           /\ videos_metric' = s.videos_metric
           /\ status_container' = s.status_container
           /\ output_container' = Last(Append(output_lines, line), DisplayTail)
    /\ snapshots' = snapshots + 1
    /\ history' = Append(history, Counters(ParseLine(decode(FirstLine(pipe)), Locals,
                                                    clock - start_time)))
    /\ UNCHANGED <<pc, form, cmd, popen_args, child, exit_status, stream, clock, start_time,
                   finalVars, jobs>>

\* Mutant of EndOfStream: an idle read times out and the loop is left
EndOfStreamTimeout ==
    /\ pc = "Running"
    /\ pipe = <<>>
    /\ pc' = "Waiting"
    /\ UNCHANGED <<form, cmd, popen_args, childVars, clock, start_time, countVars, widgetVars,
                   finalVars, snapshots, history, jobs>>

\* readline returns b'': the loop ends and process.wait() is entered
EndOfStream ==
    /\ pc = "Running"
    /\ CanRead
    /\ pipe = <<>>
    /\ pc' = "Waiting"
    /\ UNCHANGED <<form, cmd, popen_args, childVars, clock, start_time, countVars, widgetVars,
                   finalVars, snapshots, history, jobs>>

\* readline raises inside the loop
StreamError ==
    /\ pc = "Running"
    /\ Except
    /\ UNCHANGED <<form, cmd, popen_args, childVars, clock, start_time, countVars, widgetVars,
                   returncode, snapshots, history, jobs>>

\* Mutant of Classify: the test is returncode >= 0
ClassifyNonNegative(code) == IF code >= 0 THEN "Succeeded" ELSE "Failed"

\* if process.returncode == 0
Classify(code) == IF code = 0 THEN "Succeeded" ELSE "Failed"

\* process.wait() returns; the final message
Wait ==
    /\ pc = "Waiting"
    /\ child = "exited"
    /\ returncode' = exit_status
    /\ progress_bar' = <<1, 1>>
    /\ pc' = Classify(exit_status[1])
    /\ IF Classify(exit_status[1]) = "Succeeded"
       THEN /\ status_container' = SuccessStatus(clock - start_time)
            /\ UNCHANGED st_code
       ELSE /\ status_container' = ErrorStatus(exit_status[1])
            /\ st_code' = Last(output_lines, FailureTail)
    /\ outcomes' = outcomes + 1
    /\ UNCHANGED <<form, cmd, popen_args, childVars, clock, start_time, countVars,
                   posts_metric, comments_metric, images_metric, videos_metric,
                   output_container, st_error, snapshots, history, jobs>>

----------------------------------------------------------------------------
(* The scraper process and the clock *)

ExitCodes == {0, 2}

ChildWrite(chunk) ==
    /\ child = "running"
    /\ pipe' = pipe \o chunk
    /\ stream' = stream \o chunk
    /\ UNCHANGED <<pc, form, cmd, popen_args, child, exit_status, clock, start_time, countVars,
                   widgetVars, finalVars, snapshots, history, jobs>>

ChildClose ==
    /\ child = "running"
    /\ child' = "closed"
    /\ UNCHANGED <<pc, form, cmd, popen_args, exit_status, pipe, stream, clock, start_time,
                   countVars, widgetVars, finalVars, snapshots, history, jobs>>

ChildExit(code) ==
    /\ child \in {"running", "closed"}
    /\ child' = "exited"
    /\ exit_status' = <<code>>
    /\ UNCHANGED <<pc, form, cmd, popen_args, pipe, stream, clock, start_time, countVars,
                   widgetVars, finalVars, snapshots, history, jobs>>

Tick ==
    /\ clock < MaxClock
    /\ clock' = clock + 1
    /\ UNCHANGED <<pc, form, cmd, popen_args, childVars, start_time, countVars, widgetVars,
                   finalVars, snapshots, history, jobs>>

\* number of complete lines in a byte sequence
LineCount(bytes) == Cardinality({i \in 1..Len(bytes) : bytes[i] = NL})

----------------------------------------------------------------------------
(* Spec: the child writes whole lines of the scraper's vocabulary, among   *)
(* them lines that carry the triggers of two patterns.  The clock stands   *)
(* still here (elapsed is 0 throughout); it advances in SpecBulk.          *)

Lines ==
    { <<"Progress:", "5", "/", "100", "posts">>,
      <<"Progress:", "10", "/", "100", "posts">>,
      <<"Progress:", "5", "/", "0">>,
      <<"Saved", "3", "new", "posts">>,
      <<"Comments:", "7">>,
      <<"Comments:", "notanumber">>,
      <<"Fetching comments for:", "title">>,
      <<"Images:", "3">>,
      <<"Images:", "7">>,
      <<"Videos:", "1">>,
      <<"Found", "3", "posts">>,
      <<"hello", BadByte>>,
      <<"Saved", "some", "posts">>,
      <<"Fetching comments for:", "Saved", "my", "posts">>,
      <<"Saved", "3", "posts", "Comments:", "7">>,
      <<"Comments:", "7", "Fetching comments for:">>,
      <<"Images:", "3", "Videos:", "1">>,
      <<"Progress:", "5", "/", "100", "Saved", "3", "posts">> }

Supervisor ==
    \/ \E new_sub \in {"", "python"} : StartScraping(new_sub, FALSE, 100, "full", FALSE, FALSE)
    \/ Spawn
    \/ SpawnFails
    \/ ReadLine
    \/ EndOfStream
    \/ StreamError
    \/ Wait

Child ==
    \/ ChildClose
    \/ \E code \in ExitCodes : ChildExit(code)

Next ==
    \/ Supervisor
    \/ Child
    \/ \E l \in Lines :
          /\ LineCount(stream) < MaxLines
          /\ LineCount(pipe) < PipeCap
          /\ ChildWrite(l \o <<NL>>)

Spec == Init /\ [][Next]_vars

----------------------------------------------------------------------------
(* SpecBulk: a long run of numbered lines that match no pattern, while the *)
(* clock advances                                                          *)

BulkLine(n) == <<"line", ToString(n), NL>>

NextBulk ==
    \/ Supervisor
    \/ Child
    \/ /\ LineCount(stream) < MaxBulk
       /\ LineCount(pipe) < PipeCap
       /\ ChildWrite(BulkLine(LineCount(stream) + 1))
    \/ Tick

SpecBulk == Init /\ [][NextBulk]_vars

----------------------------------------------------------------------------
(* SpecFair: a short run of numbered lines, with the handler's thread      *)
(* scheduled fairly: a step of the loop or of the wait that stays possible *)
(* is eventually taken.  Nothing is assumed of the child.                  *)

NextFair ==
    \/ Supervisor
    \/ Child
    \/ /\ LineCount(stream) < MaxFairLines
       /\ LineCount(pipe) < PipeCap
       /\ ChildWrite(BulkLine(LineCount(stream) + 1))

SpecFair ==
    /\ Init
    /\ [][NextFair]_vars
    /\ WF_vars(ReadLine)
    /\ WF_vars(EndOfStream)
    /\ WF_vars(Wait)

----------------------------------------------------------------------------
(* SpecBytes: the child writes raw bytes in chunks cut at any position *)

Bytes == {"a", BadByte, NL}

Chunks == UNION {[1..n -> Bytes] : n \in 0..MaxChunk}

NextBytes ==
    \/ Supervisor
    \/ Child
    \/ \E chunk \in Chunks :
          /\ Len(stream) + Len(chunk) <= MaxBytes
          /\ ChildWrite(chunk)

SpecBytes == Init /\ [][NextBytes]_vars

----------------------------------------------------------------------------
(* SpecTimed: the child writes lines that count posts and comments, each   *)
(* in pieces cut at any position, while the clock advances                 *)

TimedLines ==
    { <<"Progress:", "5", "/", "100", "posts">>,
      <<"Saved", "3", "new", "posts">>,
      <<"Comments:", "7">>,
      <<"Fetching comments for:", "title">> }

\* the bytes written since the last line terminator
Pending(bytes) ==
    LET S == {i \in 1..Len(bytes) : bytes[i] = NL}
    IN  IF S = {} THEN bytes
        ELSE SubSeq(bytes, (CHOOSE i \in S : \A j \in S : j <= i) + 1, Len(bytes))

\* the pieces the child may write next: any further part of a line it has begun,
\* or the beginning of a new line
Pieces(bytes) ==
    LET done == Len(Pending(bytes))
    IN  UNION { { SubSeq(l \o <<NL>>, done + 1, j) : j \in (done + 1)..(Len(l) + 1) } :
                l \in {m \in TimedLines :
                          /\ done <= Len(m)
                          /\ SubSeq(m, 1, done) = Pending(bytes)} }

NextTimed ==
    \/ Supervisor
    \/ Child
    \/ \E chunk \in Pieces(stream) :
          /\ LineCount(stream) < MaxLines
          /\ LineCount(pipe) < PipeCap
          /\ ChildWrite(chunk)
    \/ Tick

SpecTimed == Init /\ [][NextTimed]_vars

----------------------------------------------------------------------------
(* SpecJobs: the handler running in two sessions at once.  Each run of the *)
(* handler is a call of main() in the session's own thread; everything the *)
(* handler reads and writes is a local of that call or a widget of that    *)
(* session, each child has its own pipe.                                   *)

\* Mutant of JobLocals: the counters are globals of the module
JobLocalsShared(j) == jobs[1].locals

\* the locals of the call of main() that serves session j
JobLocals(j) == jobs[j].locals

JobSpawn(j) ==
    /\ jobs[j].pc = "Starting"
    /\ jobs' = [jobs EXCEPT ![j].pc = "Running", ![j].child = "running",
                            ![j].output_lines = <<>>,
                            ![j].locals = [JobLocals(j) EXCEPT !.posts_count = 0,
                                                               !.comments_count = 0,
                                                               !.images_count = 0,
                                                               !.videos_count = 0]]
    /\ UNCHANGED handlerVars

JobSpawnFails(j) ==
    /\ jobs[j].pc = "Starting"
    /\ jobs' = [jobs EXCEPT ![j].pc = "Failed", ![j].st_error = "Error running scraper",
                            ![j].st_code = <<Traceback>>, ![j].outcomes = @ + 1]
    /\ UNCHANGED handlerVars

JobReadLine(j) ==
    /\ jobs[j].pc = "Running"
    /\ In(NL, jobs[j].pipe) \/ jobs[j].child # "running"
    /\ jobs[j].pipe # <<>>
    /\ LET raw_line == FirstLine(jobs[j].pipe)
           line == decode(raw_line)
       IN  jobs' = [jobs EXCEPT ![j].pipe = SubSeq(@, Len(raw_line) + 1, Len(@)),
                                ![j].output_lines = Append(@, line),
                                ![j].locals = ParseLine(line, JobLocals(j), 0)]
    /\ UNCHANGED handlerVars

JobEndOfStream(j) ==
    /\ jobs[j].pc = "Running"
    /\ jobs[j].child # "running"
    /\ jobs[j].pipe = <<>>
    /\ jobs' = [jobs EXCEPT ![j].pc = "Waiting"]
    /\ UNCHANGED handlerVars

JobStreamError(j) ==
    /\ jobs[j].pc = "Running"
    /\ jobs' = [jobs EXCEPT ![j].pc = "Failed", ![j].st_error = "Error running scraper",
                            ![j].st_code = <<Traceback>>, ![j].outcomes = @ + 1]
    /\ UNCHANGED handlerVars

JobWait(j) ==
    /\ jobs[j].pc = "Waiting"
    /\ jobs[j].child = "exited"
    /\ LET code == jobs[j].exit_status[1]
       IN  jobs' = [jobs EXCEPT ![j].returncode = <<code>>,
                                ![j].pc = Classify(code),
                                ![j].st_code = IF code = 0 THEN @
                                               ELSE Last(jobs[j].output_lines, FailureTail),
                                ![j].outcomes = @ + 1]
    /\ UNCHANGED handlerVars

JobChildWrite(j, chunk) ==
    /\ jobs[j].child = "running"
    /\ LineCount(jobs[j].stream) < MaxJobLines
    /\ jobs' = [jobs EXCEPT ![j].pipe = @ \o chunk, ![j].stream = @ \o chunk]
    /\ UNCHANGED handlerVars

\* the child of session j exits, which closes its end of the pipe
JobChildExit(j, code) ==
    /\ jobs[j].child = "running"
    /\ jobs' = [jobs EXCEPT ![j].child = "exited", ![j].exit_status = <<code>>]
    /\ UNCHANGED handlerVars

JobLines ==
    { <<"Saved", "3", "new", "posts">>,
      <<"Comments:", "7">> }

NextJobs ==
    \E j \in JobIds :
        \/ JobSpawn(j)
        \/ JobSpawnFails(j)
        \/ JobReadLine(j)
        \/ JobEndOfStream(j)
        \/ JobStreamError(j)
        \/ JobWait(j)
        \/ \E l \in JobLines : JobChildWrite(j, l \o <<NL>>)
        \/ \E code \in ExitCodes : JobChildExit(j, code)

SpecJobs == Init /\ [][NextJobs]_vars

----------------------------------------------------------------------------
(* SpecArgs: the button pressed with every combination of the form's       *)
(* values, up to the call of Popen                                         *)

\* what can be typed into the name field: nothing, a subreddit, or a text that
\* reads like an option of the scraper
Targets == {"", "python", "--user"}

\* number_input(min_value=10, max_value=5000, value=100)
Limits == {10, 100}

\* selectbox("Mode", ['full', 'history'])
Modes == {"full", "history"}

NextArgs ==
    \/ \E new_sub \in Targets, is_user \in BOOLEAN, limit \in Limits, mode \in Modes,
          no_media \in BOOLEAN, no_comments \in BOOLEAN :
          StartScraping(new_sub, is_user, limit, mode, no_media, no_comments)
    \/ Spawn
    \/ SpawnFails

SpecArgs == Init /\ [][NextArgs]_vars

----------------------------------------------------------------------------
(* SpecPosts: longer runs of the lines that count posts *)

PostsLines ==
    { <<"Progress:", "5", "/", "100", "posts">>,
      <<"Saved", "3", "new", "posts">>,
      <<"Saved", "2", "new", "posts">>,
      <<"Progress:", "5", "/", "100", "Saved", "3", "posts">> }

NextPosts ==
    \/ Supervisor
    \/ Child
    \/ \E l \in PostsLines :
          /\ LineCount(stream) < MaxPostsLines
          /\ LineCount(pipe) < PipeCap
          /\ ChildWrite(l \o <<NL>>)

SpecPosts == Init /\ [][NextPosts]_vars

----------------------------------------------------------------------------
(* SpecProgress: Progress lines with a count below the total, above the    *)
(* total, and with a total of 0                                            *)

ProgressLines ==
    { <<"Progress:", "5", "/", "100", "posts">>,
      <<"Progress:", "7", "/", "5", "posts">>,
      <<"Progress:", "7", "/", "0", "posts">>,
      <<"Saved", "3", "new", "posts">> }

NextProgress ==
    \/ Supervisor
    \/ Child
    \/ \E l \in ProgressLines :
          /\ LineCount(stream) < MaxLines
          /\ LineCount(pipe) < PipeCap
          /\ ChildWrite(l \o <<NL>>)

SpecProgress == Init /\ [][NextProgress]_vars

----------------------------------------------------------------------------
(* The supervisor's state, as the specification names it *)

Terminal == {"Succeeded", "Failed"}

State == IF pc = "Waiting" THEN "Running" ELSE pc

\* s is a prefix of t
IsPrefix(s, t) == Len(s) <= Len(t) /\ SubSeq(t, 1, Len(s)) = s

----------------------------------------------------------------------------
(* C1: on every path (clean exit, non-zero exit, spawn failure, I/O       *)
(* failure while reading) the job publishes exactly one final message: the *)
(* handler is in a terminal state exactly when one has been published,     *)
(* never a second one, and once it has been published no widget is         *)
(* updated and no per-line snapshot is published any more.                 *)
C1_OneOutcomeThenSilence ==
    [][ /\ outcomes' \in {0, 1}
        /\ (pc' \in Terminal) <=> (outcomes' = 1)
        /\ outcomes = 1 =>
              /\ snapshots' = snapshots
              /\ widgetVars' = widgetVars
              /\ st_code' = st_code
              /\ st_error' = st_error ]_vars

\* the I/O channel failed after two snapshots had been published
C1_Witness ==
    /\ pc = "Failed"
    /\ st_error = "Error running scraper"
    /\ snapshots = 2
    /\ outcomes = 1
    /\ child = "running"

(* C2: the state moves only Starting -> Running -> {Succeeded, Failed} or  *)
(* Starting -> Failed; Succeeded and Failed are never left; in Starting    *)
(* and in a terminal state no line is taken from the pipe and no counter   *)
(* changes.                                                                *)
C2_StateMachine ==
    [][ /\ State' # State =>
              <<State, State'>> \in
                  { <<"Idle", "Starting">>, <<"Starting", "Running">>,
                    <<"Starting", "Failed">>, <<"Running", "Succeeded">>,
                    <<"Running", "Failed">> }
        /\ State \in Terminal \cup {"Starting"} =>
              /\ countVars' = countVars
              /\ snapshots' = snapshots
              /\ IsPrefix(pipe, pipe') ]_vars

\* a job that read two lines, counted posts and succeeded
C2_Witness ==
    /\ pc = "Succeeded"
    /\ Len(output_lines) = 2
    /\ posts_count > 0

(* C3: once the stream has ended and the exit code has been awaited, the   *)
(* job is Succeeded exactly when the child's exit code is 0 and Failed     *)
(* exactly when it is not, and the code reported is the child's own.       *)
C3_ExitCodeDecides ==
    returncode # <<>> =>
        /\ pc \in Terminal
        /\ returncode = exit_status
        /\ (pc = "Succeeded") <=> (exit_status[1] = 0)
        /\ (pc = "Failed") <=> (exit_status[1] # 0)
        /\ pc = "Failed" => status_container = ErrorStatus(exit_status[1])
        /\ pc = "Succeeded" => status_container.kind = "success"

C3_Witness ==
    /\ pc = "Failed"
    /\ returncode = <<2>>
    /\ status_container = ErrorStatus(2)

----------------------------------------------------------------------------
(* What a line carries, read off the line alone *)

Max(S) == CHOOSE x \in S : \A y \in S : x >= y

HasProgress(line) == In("Progress:", line) /\ In("/", line) /\ PairAt(line) # {}
ProgressDone(line) == int(line[Min(PairAt(line))])
ProgressTotal(line) == int(line[Min(PairAt(line)) + 2])

HasSaved(line) == In("Saved", line) /\ In("posts", line) /\ CountAt("Saved", line) # {}
SavedCount(line) == int(line[Min(CountAt("Saved", line)) + 1])

HasCount(key, line) == In(key, line) /\ CountAt(key, line) # {}
CountOf(key, line) == int(line[Min(CountAt(key, line)) + 1])

IsFetching(line) == In("Fetching comments for:", line)

\* index of the last line read that satisfies P, 0 if there is none
LastWith(P(_)) ==
    LET S == {i \in 1..Len(output_lines) : P(output_lines[i])}
    IN  IF S = {} THEN 0 ELSE Max(S)

HasCommentsTotal(line) == HasCount("Comments:", line)

\* a step of the read loop that processed one line
ReadsLine == snapshots' = snapshots + 1

LineRead == output_lines'[Len(output_lines')]

----------------------------------------------------------------------------
(* C4, as claimed: once a "Comments: n" line has been processed, a later   *)
(* "Fetching comments for:" line leaves comments_count unchanged.          *)
C4_TotalSuppressesIncrements ==
    [][ ( /\ ReadsLine
          /\ LastWith(HasCommentsTotal) # 0
          /\ IsFetching(LineRead)
          /\ ~HasCommentsTotal(LineRead) )
        => comments_count' = comments_count ]_vars

(* C4, amended: a "Fetching comments for:" line adds 1 to comments_count   *)
(* whether or not an absolute total came before: comments_count is the     *)
(* value of the last "Comments: n" line (0 if none) plus the number of     *)
(* Fetching lines processed from that line on.                             *)
C4_TotalPlusLaterFetches ==
    LET k == LastWith(HasCommentsTotal)
        base == IF k = 0 THEN 0 ELSE CountOf("Comments:", output_lines[k])
        from == IF k = 0 THEN 1 ELSE k
    IN  comments_count =
            base + Cardinality({j \in from..Len(output_lines) : IsFetching(output_lines[j])})

\* "Comments: 7", then a Fetching line: 8
C4_Witness ==
    /\ output_lines = << <<"Comments:", "7", NL>>, <<"Fetching comments for:", "title", NL>> >>
    /\ comments_count = 8
    /\ comments_metric = Approx(8)

(* C5, as claimed: a line changes at most one of the four counters.        *)
C5_AtMostOneCounterPerLine ==
    [][ Cardinality({c \in 1..4 : countVars'[c + 1] # countVars[c + 1]}) <= 1 ]_vars

(* C5, amended: a line is offered to every pattern in the fixed order and  *)
(* every pattern it matches takes effect: Progress sets posts_count and    *)
(* Saved then adds to it, Comments sets comments_count and Fetching then   *)
(* adds 1 to it, Images and Videos set their counters; a line with the     *)
(* triggers of two patterns gets both effects.                             *)
C5_EveryMatchingPatternApplies ==
    [][ ReadsLine =>
          /\ posts_count' =
                (IF HasProgress(LineRead) THEN ProgressDone(LineRead) ELSE posts_count)
                + (IF HasSaved(LineRead) THEN SavedCount(LineRead) ELSE 0)
          /\ comments_count' =
                (IF HasCommentsTotal(LineRead) THEN CountOf("Comments:", LineRead)
                 ELSE comments_count)
                + (IF IsFetching(LineRead) THEN 1 ELSE 0)
          /\ images_count' =
                (IF HasCount("Images:", LineRead) THEN CountOf("Images:", LineRead)
                 ELSE images_count)
          /\ videos_count' =
                (IF HasCount("Videos:", LineRead) THEN CountOf("Videos:", LineRead)
                 ELSE videos_count) ]_vars

\* one line with a Saved count and a Comments total moved both counters
C5_Witness ==
    /\ output_lines = << <<"Saved", "3", "posts", "Comments:", "7", NL>> >>
    /\ posts_count = 3
    /\ comments_count = 7

----------------------------------------------------------------------------
(* The lines of a text: cut after every newline, the rest, if not empty,   *)
(* is the last line                                                        *)

RECURSIVE SplitLines(_)
SplitLines(text) ==
    IF text = <<>> THEN <<>>
    ELSE IF In(NL, text)
         THEN LET k == Min({i \in 1..Len(text) : text[i] = NL})
              IN  <<SubSeq(text, 1, k)>> \o SplitLines(SubSeq(text, k + 1, Len(text)))
         ELSE <<text>>

EndsWithNewline(line) == line # <<>> /\ line[Len(line)] = NL

(* C6: whatever the chunks the bytes arrive in, the lines handed to the    *)
(* loop are the lines of the decoded stream, each once and in order: the   *)
(* lines read so far followed by the lines still in the pipe are the lines *)
(* of the whole stream; while the stream is open only complete lines are   *)
(* handed over, an unterminated rest waits for the bytes that follow; at   *)
(* end of stream the rest is handed over if it is not empty.               *)
C6_LinesOfTheStream ==
    /\ output_lines \o SplitLines(decode(pipe)) = SplitLines(decode(stream))
    /\ \A i \in 1..Len(output_lines) : output_lines[i] # <<>>
    /\ child = "running" => \A i \in 1..Len(output_lines) : EndsWithNewline(output_lines[i])
    /\ pc = "Waiting" => output_lines = SplitLines(decode(stream))

\* "a\n" and an invalid byte without newline: two lines, the rest emitted at close
C6_Witness ==
    /\ pc = "Waiting"
    /\ stream = <<"a", NL, BadByte>>
    /\ output_lines = << <<"a", NL>>, <<Replacement>> >>

----------------------------------------------------------------------------
MinOf(a, b) == IF a <= b THEN a ELSE b

C8_RetainedLinesBounded ==
    pc = "Running" => Len(output_lines) <= 30

(* C8, amended: only what is shown is bounded: at most 15 lines while the  *)
(* job runs and at most 30 on a non-zero exit; output_lines itself keeps   *)
(* every line read, one per snapshot published.                            *)
C8_OnlyTheDisplayIsBounded ==
    /\ Len(output_container) <= 15
    /\ Len(st_code) <= 30
    /\ Len(output_lines) = snapshots
    /\ pc \in {"Running", "Waiting"} /\ pipe = <<>> => Len(output_lines) = LineCount(stream)

\* 31 lines read and kept, 15 shown
C8_Witness ==
    /\ pc = "Running"
    /\ Len(output_lines) = 31
    /\ Len(output_container) = 15

----------------------------------------------------------------------------
PostsAffecting(line) == HasProgress(line) \/ HasSaved(line)

(* C9: a Progress line sets posts_count absolutely: when the last line     *)
(* that affected posts_count is a "Progress: d/t" line, posts_count is d,  *)
(* whatever it was before.  (A line that also carries "Saved n ... posts"  *)
(* is a Saved line as well, its Saved block runs after its Progress block: *)
(* the last thing to affect posts_count is then the Saved count.)          *)
C9_ProgressIsAbsolute ==
    LET k == LastWith(PostsAffecting)
    IN  (k # 0 /\ HasProgress(output_lines[k]) /\ ~HasSaved(output_lines[k]))
            => posts_count = ProgressDone(output_lines[k])

\* Scenario A: "Progress: 5/100 posts", "Progress: 10/100 posts", exit code 0
C9_Witness ==
    /\ pc = "Succeeded"
    /\ output_lines = << <<"Progress:", "5", "/", "100", "posts", NL>>,
                         <<"Progress:", "10", "/", "100", "posts", NL>> >>
    /\ posts_count = 10
    /\ Len(output_container) = 2

HasImages(line) == HasCount("Images:", line)
HasVideos(line) == HasCount("Videos:", line)

MediaTotals ==
    LET i == LastWith(HasImages)
        v == LastWith(HasVideos)
    IN  /\ images_count = (IF i = 0 THEN 0 ELSE CountOf("Images:", output_lines[i]))
        /\ videos_count = (IF v = 0 THEN 0 ELSE CountOf("Videos:", output_lines[v]))

(* C10: images_count is the count of the most recent "Images: n" line and  *)
(* videos_count the count of the most recent "Videos: n" line, 0 if there  *)
(* was none; a line without a Videos count leaves videos_count as it was   *)
(* and a line without an Images count leaves images_count as it was.       *)
C10_MediaTotalsIndependent ==
    [][ /\ MediaTotals'
        /\ (ReadsLine /\ ~HasVideos(LineRead)) => videos_count' = videos_count
        /\ (ReadsLine /\ ~HasImages(LineRead)) => images_count' = images_count ]_vars

\* "Videos: 1" then "Images: 7": the Images line left the videos alone
C10_Witness ==
    /\ output_lines = << <<"Videos:", "1", NL>>, <<"Images:", "7", NL>> >>
    /\ images_count = 7
    /\ videos_count = 1

----------------------------------------------------------------------------
(* A trigger that is in the line while the number its pattern asks for is  *)
(* not                                                                     *)

SavedFails(line) == In("Saved", line) /\ In("posts", line) /\ CountAt("Saved", line) = {}
CountFails(key, line) == In(key, line) /\ CountAt(key, line) = {}
ProgressFails(line) == In("Progress:", line) /\ In("/", line) /\ PairAt(line) = {}

PayloadFails(line) ==
    \/ ProgressFails(line)
    \/ SavedFails(line)
    \/ CountFails("Comments:", line)
    \/ CountFails("Images:", line)
    \/ CountFails("Videos:", line)

\* some pattern that writes a counter matches the line, payload included
Matches(line) ==
    \/ HasProgress(line)
    \/ HasSaved(line)
    \/ HasCommentsTotal(line)
    \/ IsFetching(line)
    \/ HasImages(line)
    \/ HasVideos(line)

CounterVars == <<posts_count, comments_count, images_count, videos_count>>
MetricVars == <<posts_metric, comments_metric, images_metric, videos_metric>>

(* C11, as claimed: a line with a trigger whose payload fails to parse     *)
(* changes none of the four counters.                                      *)
C11_FailedPayloadVoidsTheLine ==
    [][ (ReadsLine /\ PayloadFails(LineRead)) => CounterVars' = CounterVars ]_vars

(* C11, amended: the pattern whose payload fails to parse is skipped in    *)
(* silence: it writes no counter, no error is surfaced and the loop goes   *)
(* on with the next line; the other patterns of the same line still apply, *)
(* and a line none of whose patterns matches changes no counter at all.    *)
C11_FailedPatternIsSkipped ==
    [][ (ReadsLine /\ PayloadFails(LineRead)) =>
          LET line == LineRead IN
          /\ pc' = "Running"
          /\ st_error' = st_error
          /\ st_code' = st_code
          /\ outcomes' = outcomes
          /\ output_lines' = Append(output_lines, line)
          /\ (ProgressFails(line) \/ ~In("Progress:", line)) /\ SavedFails(line) =>
                posts_count' = posts_count
          /\ SavedFails(line) /\ HasProgress(line) => posts_count' = ProgressDone(line)
          /\ CountFails("Comments:", line) =>
                comments_count' = comments_count + (IF IsFetching(line) THEN 1 ELSE 0)
          /\ CountFails("Images:", line) => images_count' = images_count
          /\ CountFails("Videos:", line) => videos_count' = videos_count
          /\ ~Matches(line) =>
                /\ CounterVars' = CounterVars
                /\ MetricVars' = MetricVars ]_vars

\* "Comments: 7", then "Comments: notanumber": the total stays 7, nothing is
\* reported and the loop is still reading
C11_Witness ==
    /\ output_lines = << <<"Comments:", "7", NL>>, <<"Comments:", "notanumber", NL>> >>
    /\ comments_count = 7
    /\ comments_metric = Plain(7)
    /\ pc = "Running"
    /\ st_error = "none"
    /\ outcomes = 0

----------------------------------------------------------------------------
(* C12: while the per-line status is on display, its rate is a fraction    *)
(* with a positive denominator (the division was defined), it is not       *)
(* negative, it is 0 when the elapsed time is 0 and posts_count divided by *)
(* the elapsed time otherwise.                                             *)
C12_RateIsGuarded ==
    status_container.kind = "running" =>
        LET e == status_container.elapsed
            r == status_container.rate
        IN  /\ e >= 0
            /\ r[2] > 0
            /\ r[1] >= 0
            /\ e = 0 => r[1] = 0
            /\ e > 0 => r = <<posts_count, e>>

\* posts were counted before the clock moved (rate 0), and more one second
\* later (rate 8 posts in 1 s)
C12_Witness ==
    /\ Len(history) = 2
    /\ history[1].posts_count = 5
    /\ posts_count = 8
    /\ status_container = RunningStatus(1, <<8, 1>>)

----------------------------------------------------------------------------
(* The loop replayed on a sequence of lines, away from the clock and the   *)
(* pipe                                                                    *)

RECURSIVE Replay(_)
Replay(lines) ==
    IF lines = <<>> THEN InitialLocals
    ELSE ParseLine(lines[Len(lines)], Replay(SubSeq(lines, 1, Len(lines) - 1)), 0)

(* C13: the four counters are a function of the sequence of lines read so  *)
(* far and of nothing else: they are what replaying these lines from zero  *)
(* counters gives, whatever the times at which the lines were read and     *)
(* whatever the pieces in which the child wrote them; and the lines read   *)
(* are the first lines of the decoded stream.                              *)
C13_CountersFollowTheLines ==
    child # "none" =>
        /\ Counters(Locals) = Counters(Replay(output_lines))
        /\ IsPrefix(output_lines, SplitLines(decode(stream)))

\* the Saved line was read at second 0 and the Progress line at second 1: the
\* counters are those of the two lines in this order
C13_Witness ==
    /\ output_lines = << <<"Saved", "3", "new", "posts", NL>>,
                         <<"Progress:", "5", "/", "100", "posts", NL>> >>
    /\ history[1].posts_count = 3
    /\ posts_count = 5
    /\ status_container.kind = "running"
    /\ status_container.elapsed = 1

----------------------------------------------------------------------------
(* C14: in every state of a job, whatever lines have been read, the four   *)
(* counters are natural numbers, and so is every counter value that was    *)
(* published with a line.                                                  *)
C14_CountersAreNaturals ==
    /\ posts_count \in Nat
    /\ comments_count \in Nat
    /\ images_count \in Nat
    /\ videos_count \in Nat
    /\ \A k \in 1..Len(history) :
          /\ history[k].posts_count \in Nat
          /\ history[k].comments_count \in Nat
          /\ history[k].images_count \in Nat
          /\ history[k].videos_count \in Nat

\* an absolute count followed by a smaller increment, and a media line: the
\* counters moved and none is negative
C14_Witness ==
    /\ Len(output_lines) = 2
    /\ posts_count = 8
    /\ images_count = 3
    /\ videos_count = 1
    /\ comments_count = 0

----------------------------------------------------------------------------
\* the handler has left Starting and there is no child
SpawnFailed == pc \notin {"Idle", "Starting"} /\ child = "none"

(* C15: when the child cannot be created the job leaves Starting for       *)
(* Failed in one step, with the error reported once; nothing was or will   *)
(* be read from the pipe, no per-line snapshot is published, the counters  *)
(* are 0, no line is stored or displayed and no exit code is reported.     *)
C15_SpawnFailureFailsAtOnce ==
    [][ SpawnFailed' =>
          /\ pc' = "Failed"
          /\ pc \in {"Starting", "Failed"}
          /\ outcomes' = 1
          /\ st_error' = "Error running scraper"
          /\ st_code' = <<Traceback>>
          /\ returncode' = <<>>
          /\ stream' = <<>>
          /\ output_lines' = <<>>
          /\ output_container' = <<>>
          /\ snapshots' = 0
          /\ history' = <<>>
          /\ CounterVars' = <<0, 0, 0, 0>> ]_vars

\* Popen was called with the command and raised
C15_Witness ==
    /\ SpawnFailed
    /\ popen_args = <<"python", "-u", "main.py", "python", "--mode", "full", "--limit", "100">>
    /\ pc = "Failed"
    /\ outcomes = 1
    /\ output_lines = <<>>
    /\ snapshots = 0

----------------------------------------------------------------------------
\* reading the pipe raised: the job failed although a child had been created
\* and its exit code was never awaited
StreamFailed == pc = "Failed" /\ child # "none" /\ returncode = <<>>

(* C16, as claimed: after a failure of the pipe the outcome carries the    *)
(* lines accumulated before the failure, be it in the final message or in  *)
(* what is left on display.                                                *)
C16_StreamFailureCarriesTheTail ==
    StreamFailed =>
        \/ st_code = Last(output_lines, FailureTail)
        \/ output_container = Last(output_lines, FailureTail)

(* C16, amended: after a failure of the pipe the loop has ended early and  *)
(* the job is Failed; the final message is the error with its traceback,   *)
(* it carries no output line and no exit code; the lines read before the   *)
(* failure are all kept in the list, and the display still shows the last  *)
(* 15 of them, as the last line read left it.                              *)
C16_StreamFailureShowsTraceback ==
    StreamFailed =>
        /\ outcomes = 1
        /\ st_error = "Error running scraper"
        /\ st_code = <<Traceback>>
        /\ returncode = <<>>
        /\ Len(output_lines) = snapshots
        /\ \A k \in 1..Len(output_lines) : output_lines[k] = BulkLine(k)
        /\ output_container = Last(output_lines, DisplayTail)

\* the pipe failed after 16 lines had been read, with a 17th waiting in it
C16_Witness ==
    /\ StreamFailed
    /\ Len(output_lines) = 16
    /\ Len(output_container) = 15
    /\ output_container[1] = BulkLine(2)
    /\ pipe # <<>>
    /\ st_code = <<Traceback>>

----------------------------------------------------------------------------
\* a step that takes bytes out of the pipe
TakesFromPipe == stream' = stream /\ pipe' # pipe

----------------------------------------------------------------------------
\* the metric widgets of a record of locals
Metrics(s) == <<s.posts_metric, s.comments_metric, s.images_metric, s.videos_metric>>

----------------------------------------------------------------------------
\* what the handler of session j holds is what its own child's stream and exit
\* code determine
JobFollowsOwnChild(j) ==
    LET job == jobs[j] IN
    /\ Counters(job.locals) = Counters(Replay(job.output_lines))
    /\ IsPrefix(job.output_lines, SplitLines(decode(job.stream)))
    /\ job.returncode # <<>> =>
          /\ job.returncode = job.exit_status
          /\ job.output_lines = SplitLines(decode(job.stream))
          /\ job.pc = Classify(job.exit_status[1])
          /\ job.pc = "Failed" => job.st_code = Last(job.output_lines, FailureTail)
    /\ job.outcomes = (IF job.pc \in Terminal THEN 1 ELSE 0)

(* C19: with two handlers running at once, under every interleaving of     *)
(* their steps and of their children's, a step changes the state of one    *)
(* job only, and each job's counters, stored lines and terminal state are  *)
(* those its own child's lines and exit code determine.                    *)
C19_JobsAreIndependent ==
    /\ [](\A j \in JobIds : JobFollowsOwnChild(j))
    /\ [][\A i, j \in JobIds : (i # j /\ jobs'[j] # jobs[j]) => jobs'[i] = jobs[i]]_vars

\* session 1 counted posts and succeeded while session 2 read a comments total
\* and failed with code 2
C19_Witness ==
    /\ jobs[1].pc = "Succeeded"
    /\ jobs[1].output_lines = << <<"Saved", "3", "new", "posts", NL>>,
                                 <<"Saved", "3", "new", "posts", NL>> >>
    /\ Counters(jobs[1].locals) =
          [posts_count |-> 6, comments_count |-> 0, images_count |-> 0, videos_count |-> 0]
    /\ jobs[2].pc = "Failed"
    /\ jobs[2].returncode = <<2>>
    /\ jobs[2].output_lines = << <<"Comments:", "7", NL>> >>
    /\ Counters(jobs[2].locals) =
          [posts_count |-> 0, comments_count |-> 7, images_count |-> 0, videos_count |-> 0]

----------------------------------------------------------------------------
\* value stands right after key somewhere in the argument vector
Follows(key, value, argv) ==
    \E i \in 1..(Len(argv) - 1) : argv[i] = key /\ argv[i + 1] = value

(* C20, as claimed: the argument vector carries the target, "--mode" with  *)
(* the mode and "--limit" with the limit, and it contains "--user",        *)
(* "--no-media", "--no-comments" exactly when the respective box is        *)
(* ticked.                                                                 *)
C20_FlagsIffTicked ==
    popen_args # <<>> =>
        /\ In(form.new_sub, popen_args)
        /\ Follows("--mode", form.mode, popen_args)
        /\ Follows("--limit", ToString(form.limit), popen_args)
        /\ In("--user", popen_args) <=> form.is_user
        /\ In("--no-media", popen_args) <=> form.no_media
        /\ In("--no-comments", popen_args) <=> form.no_comments

\* the arguments after the limit
Options(argv) == SubSeq(argv, 9, Len(argv))

(* C20, amended: the argument vector is python, -u, main.py, the target as *)
(* typed, --mode and the mode, --limit and the limit, followed by the      *)
(* options; among the options, and nowhere else by the handler's doing,    *)
(* "--user", "--no-media", "--no-comments" stand exactly when the          *)
(* respective box is ticked, once each; apart from the inserted "-u" it is *)
(* the command that was built.  The target is passed as typed, a target    *)
(* that is itself an option string included.                               *)
C20_ArgvFromForm ==
    popen_args # <<>> =>
        /\ SubSeq(popen_args, 1, 8) =
              <<"python", "-u", "main.py", form.new_sub,
                "--mode", form.mode, "--limit", ToString(form.limit)>>
        /\ In("--user", Options(popen_args)) <=> form.is_user
        /\ In("--no-media", Options(popen_args)) <=> form.no_media
        /\ In("--no-comments", Options(popen_args)) <=> form.no_comments
        /\ Len(Options(popen_args)) =
              Cardinality({f \in {"is_user", "no_media", "no_comments"} : form[f]})
        /\ cmd[1] = "python"
        /\ Tail(cmd) = SubSeq(popen_args, 3, Len(popen_args))

\* a user's history with the comments skipped
C20_Witness ==
    /\ form = [new_sub |-> "python", is_user |-> TRUE, limit |-> 10, mode |-> "history",
               no_media |-> FALSE, no_comments |-> TRUE]
    /\ popen_args = <<"python", "-u", "main.py", "python", "--mode", "history",
                      "--limit", "10", "--user", "--no-comments">>
    /\ child = "running"

----------------------------------------------------------------------------
\* a step that publishes the final message
Concludes == outcomes' = outcomes + 1

\* the final message of a step is the one of the except clause
Raised == pc' = "Failed" /\ st_code' = <<Traceback>> /\ returncode' = <<>>

(* C21, as claimed: the final message is never published before the end   *)
(* of the stream has been seen and the exit code awaited.                  *)
C21_OutcomeOnlyAfterWait ==
    [][ Concludes => (pc = "Waiting" /\ returncode' # <<>>) ]_vars

(* C21, amended: a final message that reports an exit code is published    *)
(* only from the wait, which is entered only at the end of the stream with *)
(* the pipe drained, and after which no line is processed; the only other  *)
(* final message is the one of the except clause, published at once when   *)
(* spawning or reading raises.  While the child keeps its end of the pipe  *)
(* open the handler leaves the loop in no other way: there is no timeout   *)
(* and no cancel.                                                          *)
C21_WaitPrecedesOutcome ==
    [][ /\ Concludes =>
              \/ /\ pc = "Waiting"
                 /\ child = "exited"
                 /\ returncode' = exit_status
                 /\ pc' = Classify(exit_status[1])
              \/ /\ pc \in {"Starting", "Running"}
                 /\ Raised
        /\ (pc # "Waiting" /\ pc' = "Waiting") =>
              /\ pc = "Running"
              /\ child # "running"
              /\ pipe = <<>>
        /\ pc = "Waiting" =>
              /\ snapshots' = snapshots
              /\ countVars' = countVars
              /\ pipe' = <<>>
        /\ (pc = "Running" /\ child = "running") =>
              \/ pc' = "Running" /\ outcomes' = outcomes
              \/ Concludes /\ Raised ]_vars

\* the stream has ended after two lines and the handler is blocked in the wait:
\* the child closed its output and has not exited
C21_Witness ==
    /\ pc = "Waiting"
    /\ child = "closed"
    /\ snapshots = 2
    /\ outcomes = 0
    /\ returncode = <<>>

----------------------------------------------------------------------------
(* C22: once the child, having been spawned and having written finitely    *)
(* many lines, has exited (which closes its end of the pipe), the handler, *)
(* if its thread keeps being scheduled, reads what is left in the pipe,    *)
(* leaves the loop at the end of the stream and reaches Succeeded or       *)
(* Failed.                                                                 *)
C22_ExitedChildIsConcluded ==
    (child = "exited") ~> (pc \in Terminal)

\* the child wrote three lines and exited with 0; all three were read and the
\* job succeeded
C22_Witness ==
    /\ child = "exited"
    /\ pc = "Succeeded"
    /\ LineCount(stream) = 3
    /\ snapshots = 3
    /\ pipe = <<>>

----------------------------------------------------------------------------
\* the sum of the Saved counts of lines[k], ..., lines[Len(lines)]
RECURSIVE SavedSum(_, _)
SavedSum(lines, k) ==
    IF k > Len(lines) THEN 0
    ELSE (IF HasSaved(lines[k]) THEN SavedCount(lines[k]) ELSE 0) + SavedSum(lines, k + 1)

(* C23: a "Saved n ... posts" line adds n to posts_count: posts_count is    *)
(* the count d of the last Progress line (0 if there was none) plus the    *)
(* Saved counts of the lines from that line on, so a Progress line         *)
(* discards what earlier Saved lines had added.  (The Saved count of the   *)
(* Progress line itself, if it has one, is added after d was set.)         *)
C23_SavedIsIncremental ==
    /\ [](child # "none" =>
            LET i == LastWith(HasProgress)
            IN  posts_count =
                   (IF i = 0 THEN 0 ELSE ProgressDone(output_lines[i]))
                   + SavedSum(output_lines, IF i = 0 THEN 1 ELSE i))
    /\ [][(ReadsLine /\ HasSaved(LineRead) /\ ~HasProgress(LineRead)) =>
             posts_count' = posts_count + SavedCount(LineRead)]_vars

\* Progress 5, Saved 3, Saved 2 gave 10; the Progress line that followed set 5
C23_Witness ==
    /\ output_lines = << <<"Progress:", "5", "/", "100", "posts", NL>>,
                         <<"Saved", "3", "new", "posts", NL>>,
                         <<"Saved", "2", "new", "posts", NL>>,
                         <<"Progress:", "5", "/", "100", "posts", NL>> >>
    /\ history[2].posts_count = 8
    /\ history[3].posts_count = 10
    /\ posts_count = 5

----------------------------------------------------------------------------
HasFound(line) == In("Found", line) /\ In("posts", line) /\ FoundAt(line) # {}
FoundCount(line) == int(line[Min(FoundAt(line)) + 1])

(* C24: a line that no counter pattern matches, a "Found n posts" line     *)
(* among them, leaves the four counters, the four metrics and the progress *)
(* bar as they were; the Found block itself writes nothing but the batch   *)
(* text into the status, and the status update that closes the iteration   *)
(* replaces that text at once.                                             *)
C24_FoundAndUnmatchedLeaveCounters ==
    /\ [](\A l \in Lines :
            HasFound(l) =>
               FoundBlock(l, Locals) =
                  [Locals EXCEPT !.status_container = BatchStatus(FoundCount(l))])
    /\ [][(ReadsLine /\ ~Matches(LineRead)) =>
             /\ CounterVars' = CounterVars
             /\ MetricVars' = MetricVars
             /\ progress_bar' = progress_bar
             /\ status_container'.kind = "running"]_vars

\* "Saved 3 new posts", then "Found 3 posts": the posts are still 3
C24_Witness ==
    /\ output_lines = << <<"Saved", "3", "new", "posts", NL>>, <<"Found", "3", "posts", NL>> >>
    /\ posts_count = 3
    /\ posts_metric = Plain(3)
    /\ history[1] = history[2]
    /\ status_container.kind = "running"

----------------------------------------------------------------------------
\* the fraction f lies in [0, 1]
InUnitInterval(f) == f[2] > 0 /\ 0 <= f[1] /\ f[1] <= f[2]

(* C25: the value of the progress bar is a ratio in [0, 1] in every state; *)
(* a Progress line whose count exceeds its total sets it to 1, one whose   *)
(* count is below its total sets it to count/total, and the end of the job *)
(* sets it to 1.                                                           *)
C25_ProgressRatioInUnitInterval ==
    /\ [](InUnitInterval(progress_bar))
    /\ [][(ReadsLine /\ HasProgress(LineRead) /\ ProgressTotal(LineRead) > 0) =>
             progress_bar' =
                IF ProgressDone(LineRead) >= ProgressTotal(LineRead) THEN <<1, 1>>
                ELSE <<ProgressDone(LineRead), ProgressTotal(LineRead)>>]_vars
    /\ [](returncode # <<>> => progress_bar = <<1, 1>>)

\* "Progress: 7/5 posts" has just been read: the bar is full, the metric says 7/5
C25_Witness ==
    /\ pc = "Running"
    /\ output_lines = << <<"Progress:", "5", "/", "100", "posts", NL>>,
                         <<"Progress:", "7", "/", "5", "posts", NL>> >>
    /\ progress_bar = <<1, 1>>
    /\ posts_metric = OutOf(7, 5)
    /\ posts_count = 7

----------------------------------------------------------------------------
(* C26: a "Progress: d/0" line (with no Saved count of its own) sets        *)
(* posts_count to d and leaves the progress bar and the posts metric as    *)
(* they were; the loop goes on and no error is reported.  The posts on     *)
(* display may then differ from posts_count.                               *)
C26_ZeroTotalSetsCountOnly ==
    [][ (/\ ReadsLine
         /\ HasProgress(LineRead)
         /\ ProgressTotal(LineRead) = 0
         /\ ~HasSaved(LineRead)) =>
           /\ posts_count' = ProgressDone(LineRead)
           /\ progress_bar' = progress_bar
           /\ posts_metric' = posts_metric
           /\ pc' = "Running"
           /\ st_error' = st_error
           /\ outcomes' = outcomes ]_vars

\* "Progress: 5/100 posts", then "Progress: 7/0 posts": 7 posts counted, 5/100
\* on display
C26_Witness ==
    /\ output_lines = << <<"Progress:", "5", "/", "100", "posts", NL>>,
                         <<"Progress:", "7", "/", "0", "posts", NL>> >>
    /\ posts_count = 7
    /\ posts_metric = OutOf(5, 100)
    /\ progress_bar = <<5, 100>>
    /\ st_error = "none"

----------------------------------------------------------------------------
\* the message of the name check
NameMissing == "Please enter a subreddit/user name!"

(* C27: pressing the button with an empty name shows the validation error  *)
(* and nothing else: the handler stays idle, no command is built, Popen is *)
(* not called, there is no child, no counter, line, snapshot or widget     *)
(* changes and no final message is published; as long as the name on the  *)
(* form is empty the handler is idle.                                      *)
C27_EmptyNameOnlyShowsError ==
    /\ [](form.new_sub = "" =>
            /\ pc = "Idle"
            /\ child = "none"
            /\ cmd = <<>>
            /\ popen_args = <<>>
            /\ CounterVars = <<0, 0, 0, 0>>
            /\ output_lines = <<>>
            /\ snapshots = 0
            /\ outcomes = 0
            /\ st_code = <<>>)
    /\ [][(pc = "Idle" /\ form'.new_sub = "") =>
             /\ st_error' = NameMissing
             /\ pc' = "Idle"
             /\ widgetVars' = widgetVars
             /\ childVars' = childVars
             /\ countVars' = countVars]_vars

\* the button was pressed with two boxes ticked and no name
C27_Witness ==
    /\ pc = "Idle"
    /\ st_error = NameMissing
    /\ form.new_sub = ""
    /\ form.is_user
    /\ form.no_media
    /\ popen_args = <<>>
    /\ outcomes = 0

====
